---- MODULE Spec2Model ----
(***************************************************************************)
(* The rate-limiting layer of the Kazwab backend (middleware/rateLimit):   *)
(* the request store shared by every limiter, the custom store's           *)
(* incr / decrement / resetKey, the hourly clean-up sweep, the limiter     *)
(* catalog and the whitelist middleware pair skipRateLimit /               *)
(* conditionalRateLimit.                                                   *)
(*                                                                         *)
(* Time is Date.now() counted in ticks of five minutes, the greatest       *)
(* common divisor of every window of the catalog, so that 15 min = 3,      *)
(* 60 min = 12 and 5 min = 1 and every comparison of the code between now  *)
(* and a resetTime is exact.                                               *)
(*                                                                         *)
(* express-rate-limit itself is a third-party package.  A limiter is       *)
(* modelled by what the options written in the source say it does: it      *)
(* keys the store by req.ip (no keyGenerator is given), calls the store's  *)
(* incr once per request and answers 429 through the handler when the      *)
(* returned totalHits is above max ("limit each IP to <max> requests per   *)
(* windowMs").                                                             *)
(*                                                                         *)
(* Behind the rate limiting the module follows the auth middleware         *)
(* (authenticateToken, requireRole over the roles of UserModel), the       *)
(* life of one success story and of one contact message under route        *)
(* handlers that interleave at their awaits, and validatePagination.       *)
(* mongoose and Joi are third-party packages: save() writes the fields     *)
(* the handler set to the document of that id, and validate() with         *)
(* stripUnknown keeps the keys the schema lists.                           *)
(***************************************************************************)
EXTENDS Integers, FiniteSets, Sequences, TLC

VARIABLES
    requestStore,   \* the Map: req.ip -> [totalHits, resetTime]
    now,            \* Date.now(), in ticks
    last,           \* the last operation and what it observed and answered
    hist,           \* the requests the watched key has sent (history, for the claims)
    custom,         \* the limiter createCustomLimiter built last
    inflight,       \* the request on its way through the app's middleware
    users,          \* the users collection: userId -> [id, role, isActive]
    req,            \* the request on its way through the auth middleware of a route
    story,          \* the success story document the model follows
    calls,          \* the route handlers in flight: what each loaded and where it is
    contact,        \* the contact message document the model follows
    query           \* req.query of the request in validatePagination, and its answer

\* what the routes and their middleware keep, apart from the rate limiting
dbVars == <<users, req, story, calls, contact, query>>

\* what the rate limiting keeps
limitVars == <<requestStore, now, last, hist, custom, inflight>>

vars == <<requestStore, now, last, hist, custom, inflight, users, req, story, calls,
         contact, query>>

----------------------------------------------------------------------------
(* Bounds of the model *)

MaxTime == 4        \* the clock stops after this many ticks
MaxHits == 6        \* no request is sent to a live counter that has this many hits
MaxOver == 2        \* the app: no request is sent to a counter this far above max
MaxLen == 3         \* characters in a query parameter

----------------------------------------------------------------------------
(* Time scale *)

MsPerTick == 5 * 60 * 1000

Min(a, b) == IF a < b THEN a ELSE b

----------------------------------------------------------------------------
(* Client keys *)

whitelistedIPs == {"127.0.0.1", "::1"}

IPs == whitelistedIPs \cup {"1.2.3.4", "5.6.7.8"}

----------------------------------------------------------------------------
(* The limiter catalog *)

apiLimiter ==
    [scope |-> "api", windowMs |-> (15 * 60 * 1000) \div MsPerTick, max |-> 100,
     message |-> "Too many requests from this IP, please try again later."]

authLimiter ==
    [scope |-> "auth", windowMs |-> (15 * 60 * 1000) \div MsPerTick, max |-> 5,
     message |-> "Too many authentication attempts, please try again later."]

uploadLimiter ==
    [scope |-> "upload", windowMs |-> (60 * 60 * 1000) \div MsPerTick, max |-> 10,
     message |-> "Too many file uploads, please try again later."]

contactLimiter ==
    [scope |-> "contact", windowMs |-> (60 * 60 * 1000) \div MsPerTick, max |-> 3,
     message |-> "Too many contact form submissions, please try again later."]

newsletterLimiter ==
    [scope |-> "newsletter", windowMs |-> (60 * 60 * 1000) \div MsPerTick, max |-> 5,
     message |-> "Too many newsletter subscription attempts, please try again later."]

searchLimiter ==
    [scope |-> "search", windowMs |-> (5 * 60 * 1000) \div MsPerTick, max |-> 30,
     message |-> "Too many search requests, please try again later."]

Limiters ==
    {apiLimiter, authLimiter, uploadLimiter, contactLimiter, newsletterLimiter,
     searchLimiter}

Scopes == {L.scope : L \in Limiters}

LimiterOf(scope) == CHOOSE L \in Limiters : L.scope = scope

\* createCustomLimiter(windowMs, max, message): the limiter it returns.  It
\* hands its arguments to rateLimit as they are.
createCustomLimiter(w, max, message) ==
    [scope |-> "custom", windowMs |-> w, max |-> max, message |-> message]

\* no limiter built yet
NoLimiter == [scope |-> "none", windowMs |-> 0, max |-> 0, message |-> "-"]

\* the arguments createCustomLimiter is called with: windows of 0, 5 and 60
\* minutes, limits from -1 to 2
CustomWindows == {0, (5 * 60 * 1000) \div MsPerTick, (60 * 60 * 1000) \div MsPerTick}

CustomMaxes == {-1, 0, 1, 2}

CustomMessage == "Too many requests."

----------------------------------------------------------------------------
(* The custom store *)

\* "no entry": what requestStore.get(key) gives for a key the Map does not hold
NoEntry == [totalHits |-> -1, resetTime |-> -1]

\* const windowMs = 15 * 60 * 1000 inside incr: the window of every counter
windowMs == (15 * 60 * 1000) \div MsPerTick

has(store, key) == key \in DOMAIN store

get(store, key) == IF has(store, key) THEN store[key] ELSE NoEntry

set(store, key, data) ==
    [k \in DOMAIN store \cup {key} |-> IF k = key THEN data ELSE store[k]]

delete(store, key) == [k \in DOMAIN store \ {key} |-> store[k]]

\* incr with the window never reset: an expired counter keeps counting
incr_neverExpires(store, key, t) ==
    IF ~has(store, key)
    THEN set(store, key, [totalHits |-> 1, resetTime |-> t + windowMs])
    ELSE [store EXCEPT ![key].totalHits = @ + 1]

\* incr with the window reset from resetTime on (now >= resetTime)
incr_resetAtEnd(store, key, t) ==
    IF ~has(store, key)
    THEN set(store, key, [totalHits |-> 1, resetTime |-> t + windowMs])
    ELSE IF t >= store[key].resetTime
         THEN [store EXCEPT ![key] = [totalHits |-> 1, resetTime |-> t + windowMs]]
         ELSE [store EXCEPT ![key].totalHits = @ + 1]

\* incr that also starts a new window when the clock is before the window
incr_resetOnRegression(store, key, t) ==
    IF ~has(store, key)
    THEN set(store, key, [totalHits |-> 1, resetTime |-> t + windowMs])
    ELSE IF t > store[key].resetTime \/ t < store[key].resetTime - windowMs
         THEN [store EXCEPT ![key] = [totalHits |-> 1, resetTime |-> t + windowMs]]
         ELSE [store EXCEPT ![key].totalHits = @ + 1]

\* incr that starts the new window of an expired counter at 0 hits
incr_rolloverToZero(store, key, t) ==
    IF ~has(store, key)
    THEN set(store, key, [totalHits |-> 1, resetTime |-> t + windowMs])
    ELSE IF t > store[key].resetTime
         THEN [store EXCEPT ![key] = [totalHits |-> 0, resetTime |-> t + windowMs]]
         ELSE [store EXCEPT ![key].totalHits = @ + 1]

\* incr with a sliding window: every hit moves resetTime
incr_sliding(store, key, t) ==
    IF ~has(store, key) \/ t > store[key].resetTime
    THEN set(store, key, [totalHits |-> 1, resetTime |-> t + windowMs])
    ELSE [store EXCEPT ![key] = [totalHits |-> @.totalHits + 1,
                                 resetTime |-> t + windowMs]]

\* customStore.incr(key) at time t: the Map afterwards.  The value incr
\* returns, { totalHits, resetTime }, is the entry of key in that Map.
incr(store, key, t) ==
    IF ~has(store, key)
    THEN set(store, key, [totalHits |-> 1, resetTime |-> t + windowMs])
    ELSE IF t > store[key].resetTime
         THEN [store EXCEPT ![key] = [totalHits |-> 1, resetTime |-> t + windowMs]]
         ELSE [store EXCEPT ![key].totalHits = @ + 1]

\* decrement without the totalHits > 0 guard
decrement_unguarded(store, key) ==
    IF has(store, key)
    THEN [store EXCEPT ![key].totalHits = @ - 1]
    ELSE store

\* decrement that makes an entry for a key that has none
decrement_creates(store, key) ==
    IF has(store, key)
    THEN IF store[key].totalHits > 0
         THEN [store EXCEPT ![key].totalHits = @ - 1]
         ELSE store
    ELSE set(store, key, [totalHits |-> 0, resetTime |-> 0])

\* customStore.decrement(key)
decrement(store, key) ==
    IF has(store, key) /\ store[key].totalHits > 0
    THEN [store EXCEPT ![key].totalHits = @ - 1]
    ELSE store

\* customStore.resetKey(key)
resetKey(store, key) == delete(store, key)

\* a sweep that removes nothing
sweep_keepsAll(store, t) ==
    LET gone == {}
    IN  [k \in DOMAIN store \ gone |-> store[k]]

\* the sweep with the counters whose resetTime is now removed as well
sweep_inclusive(store, t) ==
    LET gone == {k \in DOMAIN store : t - store[k].resetTime >= 0}
    IN  [k \in DOMAIN store \ gone |-> store[k]]

\* the setInterval callback at time t
sweep(store, t) ==
    LET gone == {k \in DOMAIN store : t - store[k].resetTime > 0}
    IN  [k \in DOMAIN store \ gone |-> store[k]]

----------------------------------------------------------------------------
(* The middleware *)

\* skipRateLimit: the value it leaves in req.skipRateLimit
skipRateLimit(ip) == ip \in whitelistedIPs

\* what a limiter that calls next() has written of the response: nothing
NoBody == [success |-> TRUE, message |-> "-"]

\* the key a limiter hands to the store: no keyGenerator and no prefix is
\* configured and every limiter has store: customStore, so it is req.ip
\* whatever the limiter
keyGenerator(ip, limiter) == ip

\* a limiter whose handler answers with the text of the general limiter
rateLimit_apiMessage(limiter, store, ip, t) ==
    LET key    == keyGenerator(ip, limiter)
        after  == incr(store, key, t)
        result == after[key]
    IN  [store  |-> after,
         result |-> result,
         status |-> IF result.totalHits > limiter.max THEN "429" ELSE "next",
         body   |-> IF result.totalHits > limiter.max
                    THEN [success |-> FALSE, message |-> apiLimiter.message]
                    ELSE NoBody]

\* a limiter that lets one hit more than max through
rateLimit_lenient(limiter, store, ip, t) ==
    LET key    == keyGenerator(ip, limiter)
        after  == incr(store, key, t)
        result == after[key]
    IN  [store  |-> after,
         result |-> result,
         status |-> IF result.totalHits > limiter.max + 1 THEN "429" ELSE "next",
         body   |-> IF result.totalHits > limiter.max + 1
                    THEN [success |-> FALSE, message |-> limiter.message]
                    ELSE NoBody]

\* a limiter that answers 429 from the max-th hit on
rateLimit_offByOne(limiter, store, ip, t) ==
    LET key    == keyGenerator(ip, limiter)
        after  == incr(store, key, t)
        result == after[key]
    IN  [store  |-> after,
         result |-> result,
         status |-> IF result.totalHits >= limiter.max THEN "429" ELSE "next",
         body   |-> IF result.totalHits >= limiter.max
                    THEN [success |-> FALSE, message |-> limiter.message]
                    ELSE NoBody]

\* a limiter built by rateLimit({windowMs, max, store: customStore, handler}):
\* one incr on the shared store under the key req.ip, then the handler's 429
\* with status 429 and the JSON body {success: false, message} when the hits
\* are above max, next() otherwise
rateLimit(limiter, store, ip, t) ==
    LET key    == keyGenerator(ip, limiter)
        after  == incr(store, key, t)
        result == after[key]
    IN  [store  |-> after,
         result |-> result,
         status |-> IF result.totalHits > limiter.max THEN "429" ELSE "next",
         body   |-> IF result.totalHits > limiter.max
                    THEN [success |-> FALSE, message |-> limiter.message]
                    ELSE NoBody]

\* conditionalRateLimit that does not look at req.skipRateLimit
conditionalRateLimit_noSkip(limiter, skip, store, ip, t) ==
    rateLimit(limiter, store, ip, t)

\* conditionalRateLimit(limiter) on a request whose req.skipRateLimit is skip
conditionalRateLimit(limiter, skip, store, ip, t) ==
    IF skip
    THEN [store |-> store, result |-> NoEntry, status |-> "next", body |-> NoBody]
    ELSE rateLimit(limiter, store, ip, t)

----------------------------------------------------------------------------
(* What the model records of a run *)

NoKey == "-"

Obs(op, key, scope, before, result, status, swept) ==
    [op |-> op, key |-> key, scope |-> scope, at |-> now, before |-> before,
     result |-> result, status |-> status, swept |-> swept, body |-> NoBody]

\* the key whose requests hist follows
Watched == "1.2.3.4"

\* the requests of the watched key: `only` is the one scope all of them were
\* sent under ("none" before the first, "mixed" once a second scope, a
\* decrement or a resetKey has touched the key), `first` the time of the first
\* request of the current window of that scope's limiter, `sent` the requests
\* from `first` on and inside that window, `admits` the requests answered
\* next() since incr last opened a window for the key's counter
NoHist == [only |-> "none", first |-> 0, sent |-> 0, admits |-> 0]

Mixed == [only |-> "mixed", first |-> 0, sent |-> 0, admits |-> 0]

SentCap == MaxHits + 2

Charged(h, limiter, before, out) ==
    IF h.only \notin {"none", limiter.scope}
    THEN Mixed
    ELSE LET freshWindow  == h.sent = 0 \/ now >= h.first + limiter.windowMs
             freshCounter == \/ before = NoEntry
                             \/ out.result.resetTime # before.resetTime
             admit        == IF out.status = "next" THEN 1 ELSE 0
         IN  [only   |-> limiter.scope,
              first  |-> IF freshWindow THEN now ELSE h.first,
              sent   |-> IF freshWindow THEN 1 ELSE Min(h.sent + 1, SentCap),
              admits |-> IF freshCounter THEN admit ELSE h.admits + admit]

\* hist after the operation that `last'` describes
Track ==
    hist' = IF last'.key # Watched \/ last'.op \notin {"request", "decrement", "resetKey"}
            THEN hist
            ELSE IF last'.op = "request"
                 THEN Charged(hist, LimiterOf(last'.scope), last'.before,
                              [result |-> last'.result, status |-> last'.status])
                 ELSE IF last'.before = NoEntry THEN hist ELSE Mixed

----------------------------------------------------------------------------
(* Users, tokens and the auth middleware (middleware/auth, UserModel) *)

Roles == {"viewer", "content_manager", "news_editor", "admin"}

\* hasPermission with the two middle roles the other way round
roleHierarchy_swapped ==
    [viewer |-> 0, content_manager |-> 2, news_editor |-> 1, admin |-> 3]

roleHierarchy ==
    [viewer |-> 0, content_manager |-> 1, news_editor |-> 2, admin |-> 3]

\* user.hasPermission(requiredRole)
hasPermission(user, requiredRole) ==
    roleHierarchy[user.role] >= roleHierarchy[requiredRole]

\* the users of the collection, one of each role, and an id no user has
UserIds == {"u_admin", "u_admin2", "u_editor", "u_manager", "u_viewer"}
UnknownId == "u_gone"

RoleOf(id) ==
    CASE id = "u_admin"   -> "admin"
      [] id = "u_admin2"  -> "admin"
      [] id = "u_editor"  -> "news_editor"
      [] id = "u_manager" -> "content_manager"
      [] OTHER            -> "viewer"

InitUsers == [id \in UserIds |-> [id |-> id, role |-> RoleOf(id), isActive |-> TRUE]]

\* req.user not set
NoUser == [id |-> "-", role |-> "-", isActive |-> FALSE]

\* a token: whether jwt.verify accepts it, and the userId in its payload
Tokens == [valid : BOOLEAN, userId : UserIds \cup {UnknownId}]
NoToken == [valid |-> FALSE, userId |-> "-"]

\* the Authorization header as the words split(' ') gives
Headers ==
    {<< >>, <<"Bearer">>}
      \cup {<<scheme, token>> : scheme \in {"Bearer", "Basic"}, token \in Tokens}

\* req.headers.authorization?.split(' ')[1]
tokenOf(header) == IF Len(header) >= 2 THEN header[2] ELSE NoToken

\* authenticateToken that does not look at isActive
authenticateToken_anyUser(header, table) ==
    LET token == tokenOf(header)
    IN  IF token = NoToken THEN [status |-> "401", user |-> NoUser]
        ELSE IF ~token.valid THEN [status |-> "401", user |-> NoUser]
        ELSE IF token.userId \notin DOMAIN table
             THEN [status |-> "401", user |-> NoUser]
             ELSE [status |-> "next", user |-> table[token.userId]]

\* authenticateToken: 401, or next with req.user set
authenticateToken(header, table) ==
    LET token == tokenOf(header)
    IN  IF token = NoToken THEN [status |-> "401", user |-> NoUser]
        ELSE IF ~token.valid THEN [status |-> "401", user |-> NoUser]
        ELSE IF token.userId \notin DOMAIN table \/ ~table[token.userId].isActive
             THEN [status |-> "401", user |-> NoUser]
             ELSE [status |-> "next", user |-> table[token.userId]]

\* requireRole(requiredRole): 401, 403 or next
requireRole(requiredRole, user) ==
    IF user = NoUser THEN "401"
    ELSE IF ~hasPermission(user, requiredRole) THEN "403"
    ELSE "next"

\* the middleware of a protected route, and of a route with the gate alone
Protected == <<"authenticateToken", "requireRole", "handler">>
GateOnly == <<"requireRole", "handler">>

NoReq == [header |-> << >>, required |-> "-", chain |-> << >>, at |-> 0,
          user |-> NoUser, auth |-> "none", gate |-> "none", status |-> "none"]

\* a request to a route that asks for the role `required`
Receive(header, required, chain) ==
    /\ req.status # "pending"
    /\ req' = [header |-> header, required |-> required, chain |-> chain,
               at |-> 1, user |-> NoUser, auth |-> "none", gate |-> "none",
               status |-> "pending"]
    /\ UNCHANGED <<users, story, calls, contact, query>>

RunAuthenticateToken ==
    LET out == authenticateToken(req.header, users)
    IN  /\ req.status = "pending"
        /\ req.chain[req.at] = "authenticateToken"
        /\ req' = IF out.status = "next"
                  THEN [req EXCEPT !.user = out.user, !.auth = "next", !.at = @ + 1]
                  ELSE [req EXCEPT !.auth = out.status, !.status = out.status]
        /\ UNCHANGED <<users, story, calls, contact, query>>

RunRequireRole ==
    LET out == requireRole(req.required, req.user)
    IN  /\ req.status = "pending"
        /\ req.chain[req.at] = "requireRole"
        /\ req' = IF out = "next"
                  THEN [req EXCEPT !.gate = "next", !.at = @ + 1]
                  ELSE [req EXCEPT !.gate = out, !.status = out]
        /\ UNCHANGED <<users, story, calls, contact, query>>

RunHandler ==
    /\ req.status = "pending"
    /\ req.chain[req.at] = "handler"
    /\ req' = [req EXCEPT !.status = "handled"]
    /\ UNCHANGED <<users, story, calls, contact, query>>

\* a user is deactivated or activated again
SetActive(id, active) ==
    /\ users[id].isActive # active
    /\ users' = [users EXCEPT ![id].isActive = active]
    /\ UNCHANGED <<req, story, calls, contact, query>>

----------------------------------------------------------------------------
(* Success stories (routes/successStories, SuccessStoryModel) *)

\* the handlers that can be in flight together
Procs == {1, 2}

\* no document yet; id 1 is the id of the story the model follows
NoStory == [id |-> 0, exists |-> FALSE, isVerified |-> FALSE, isActive |-> FALSE,
            featured |-> FALSE, approvedBy |-> "-", approvedAt |-> -1]

\* the fields of a document a map of field values assigns, the others kept
Assign(doc, fields) ==
    [f \in DOMAIN doc |-> IF f \in DOMAIN fields THEN fields[f] ELSE doc[f]]

\* validateBody: the keys of the body the schema knows (stripUnknown)
stripUnknown(body, keys) == [f \in DOMAIN body \cap keys |-> body[f]]

\* an update schema that lets isVerified through
updateKeys_withVerified == {"featured", "isActive", "isVerified"}

\* the flags among the keys of successStoryValidation.update and .create
updateKeys == {"featured", "isActive"}
createKeys == {}

\* request bodies: the flags they carry
Bodies ==
    {<< >>, [isActive |-> FALSE], [featured |-> TRUE], [isVerified |-> TRUE],
     [isActive |-> TRUE, isVerified |-> TRUE]}

\* the role the route asks for before the handler
RequiredRole(op) ==
    CASE op \in {"approve", "reject", "delete"} -> "admin"
      [] op \in {"update", "toggleFeatured", "toggleActive"} -> "content_manager"
      [] OTHER -> "-"

StoryOps == {"get", "approve", "reject", "update", "toggleFeatured",
             "toggleActive", "delete"}

\* what a handler reads of the document findById gave it
Loaded(doc) ==
    [exists |-> doc.exists, isVerified |-> doc.isVerified,
     isActive |-> doc.isActive, featured |-> doc.featured]

NoCall == [op |-> "-", user |-> "-", body |-> << >>, doc |-> Loaded(NoStory),
           pc |-> "idle", status |-> "-"]

\* POST /: a new document with the schema's defaults under the flags of
\* the validated body
Submit(body) ==
    /\ story.id = 0
    /\ story' = Assign([id |-> story.id + 1, exists |-> TRUE,
                        isVerified |-> FALSE, isActive |-> TRUE,
                        featured |-> FALSE, approvedBy |-> "-",
                        approvedAt |-> -1],
                       stripUnknown(body, createKeys))
    /\ UNCHANGED <<calls, users, req, contact, query>>

\* a request reaches the handler of op: the public GET /:id, or an admin
\* route after authenticateToken and requireRole let user through
Start(p, op, user, body) ==
    /\ calls[p].pc = "idle"
    /\ IF op = "get"
       THEN user = "-"
       ELSE /\ user \in DOMAIN users
            /\ authenticateToken(<<"Bearer", [valid |-> TRUE, userId |-> user]>>,
                                 users).status = "next"
            /\ requireRole(RequiredRole(op), users[user]) = "next"
    /\ calls' = [calls EXCEPT ![p] =
                    [op |-> op,
                     user |-> IF op = "approve" THEN user ELSE "-",
                     body |-> IF op = "update" THEN stripUnknown(body, updateKeys)
                              ELSE << >>,
                     doc |-> Loaded(NoStory), pc |-> "find", status |-> "-"]]
    /\ UNCHANGED <<story, users, req, contact, query>>

\* await SuccessStory.findById(id) and the tests on the document found
Find(p) ==
    LET c   == calls[p]
        doc == story
        status ==
            IF ~doc.exists THEN "404"
            ELSE IF c.op = "get" /\ (~doc.isVerified \/ ~doc.isActive) THEN "404"
            ELSE IF c.op = "approve" /\ doc.isVerified THEN "400"
            ELSE "-"
    IN  /\ c.pc = "find"
        /\ c.op \in StoryOps
        /\ calls' = [calls EXCEPT ![p] =
                        [c EXCEPT !.doc = Loaded(doc),
                                  !.pc = IF status = "-" THEN "save" ELSE "done",
                                  !.status = status]]
        /\ UNCHANGED <<story, users, req, contact, query>>

\* what the handler of a call sets on the document it loaded
Changes(c, t) ==
    CASE c.op = "approve" ->
            [isVerified |-> TRUE, approvedBy |-> c.user, approvedAt |-> t]
      [] c.op = "reject" -> [isActive |-> FALSE]
      [] c.op = "toggleFeatured" -> [featured |-> ~c.doc.featured]
      [] c.op = "toggleActive" -> [isActive |-> ~c.doc.isActive]
      [] c.op = "update" -> c.body
      [] OTHER -> << >>

\* await document.save(): the fields set are written to the document of that
\* id, if it is still there; findByIdAndDelete removes it
Save(p) ==
    LET c == calls[p]
        there == story.exists
    IN  /\ c.pc = "save"
        /\ c.op \in StoryOps
        /\ story' = IF ~there THEN story
                    ELSE IF c.op = "delete" THEN [NoStory EXCEPT !.id = story.id]
                    ELSE Assign(story, Changes(c, now))
        /\ calls' = [calls EXCEPT ![p] =
                        [c EXCEPT !.pc = "done",
                                  !.status = IF there \/ c.op = "delete"
                                             THEN "200" ELSE "500"]]
        /\ UNCHANGED <<users, req, contact, query>>

\* the response is sent
Respond(p) ==
    /\ calls[p].pc = "done"
    /\ calls' = [calls EXCEPT ![p] = NoCall]
    /\ UNCHANGED <<story, users, req, contact, query>>

----------------------------------------------------------------------------
(* Contact messages (routes/contact, ContactModel) *)

\* the status enum of the schema
Statuses == {"unread", "read", "replied", "archived"}

\* what PUT /:id/status may carry as status
StatusInputs == Statuses \cup {"spam"}

NoContact == [id |-> 0, exists |-> FALSE, status |-> "-"]

ContactOps == {"getContact", "markRead", "markReplied", "archive",
               "updateStatus", "deleteContact"}

\* POST /: a new message, status by default unread
SubmitContact ==
    /\ contact.id = 0
    /\ contact' = [id |-> 1, exists |-> TRUE, status |-> "unread"]
    /\ UNCHANGED <<calls, users, req, story, query>>

\* a request reaches the handler of an admin route of the contact router;
\* validateBody(updateStatus) has answered 400 to a status off the enum
StartContact(p, op, user, status) ==
    /\ calls[p].pc = "idle"
    /\ user \in DOMAIN users
    /\ authenticateToken(<<"Bearer", [valid |-> TRUE, userId |-> user]>>,
                         users).status = "next"
    /\ requireRole("admin", users[user]) = "next"
    /\ op = "updateStatus" => status \in Statuses
    /\ calls' = [calls EXCEPT ![p] =
                    [op |-> op, user |-> "-",
                     body |-> IF op = "updateStatus" THEN [status |-> status]
                              ELSE << >>,
                     doc |-> NoContact, pc |-> "find", status |-> "-"]]
    /\ UNCHANGED <<contact, users, req, story, query>>

\* await Contact.findById(id); GET /:id saves only a message it found unread
FindContact(p) ==
    LET c == calls[p]
    IN  /\ c.pc = "find"
        /\ c.op \in ContactOps
        /\ calls' = [calls EXCEPT ![p] =
              [c EXCEPT !.doc = contact,
                        !.pc = IF ~contact.exists THEN "done"
                               ELSE IF c.op = "getContact" /\ contact.status # "unread"
                                    THEN "done"
                                    ELSE "save",
                        !.status = IF ~contact.exists THEN "404"
                                   ELSE IF c.op = "getContact"
                                           /\ contact.status # "unread"
                                        THEN "200"
                                        ELSE "-"]]
        /\ UNCHANGED <<contact, users, req, story, query>>

\* the status the handler of a call sets on the document it loaded
NewStatus(c) ==
    CASE c.op \in {"getContact", "markRead"} -> "read"
      [] c.op = "markReplied" -> "replied"
      [] c.op = "archive" -> "archived"
      [] OTHER -> c.body.status

\* await contact.save(), or Contact.findByIdAndDelete(id)
SaveContact(p) ==
    LET c == calls[p]
    IN  /\ c.pc = "save"
        /\ c.op \in ContactOps
        /\ contact' = IF ~contact.exists THEN contact
                      ELSE IF c.op = "deleteContact"
                           THEN [contact EXCEPT !.exists = FALSE, !.status = "-"]
                           ELSE [contact EXCEPT !.status = NewStatus(c)]
        /\ calls' = [calls EXCEPT ![p] =
              [c EXCEPT !.pc = "done",
                        !.status = IF contact.exists \/ c.op = "deleteContact"
                                   THEN "200" ELSE "500"]]
        /\ UNCHANGED <<users, req, story, query>>

----------------------------------------------------------------------------
(* Pagination (middleware/validation validatePagination) *)

\* the characters of a query parameter: a sign, two digits and a letter
Chars == {"-", "0", "1", "a"}
DigitChars == {"0", "1"}

digit(c) == IF c = "1" THEN 1 ELSE 0

\* a parameter that is not in the query: parseInt sees the string of undefined
Missing == <<"undefined">>

RawValues == {Missing} \cup UNION {[1..n -> Chars] : n \in 0..MaxLen}

NaN == [nan |-> TRUE, val |-> 0]

\* the digits str starts with, read as a number in base 10 after acc
RECURSIVE leadingDigits(_, _, _)
leadingDigits(str, acc, seen) ==
    IF str # << >> /\ Head(str) \in DigitChars
    THEN leadingDigits(Tail(str), 10 * acc + digit(Head(str)), TRUE)
    ELSE IF seen THEN [nan |-> FALSE, val |-> acc] ELSE NaN

\* parseInt(str): an optional sign, then digits up to the first other
\* character; NaN when there is no digit
parseInt(str) ==
    IF str # << >> /\ Head(str) = "-"
    THEN LET n == leadingDigits(Tail(str), 0, FALSE)
         IN  IF n.nan THEN NaN ELSE [nan |-> FALSE, val |-> 0 - n.val]
    ELSE leadingDigits(str, 0, FALSE)

\* n || d: NaN and 0 are falsy
orElse(n, d) == IF n.nan \/ n.val = 0 THEN d ELSE n.val

\* validatePagination without the upper bound on limit
validatePagination_noUpperBound(rawPage, rawLimit) ==
    LET page  == orElse(parseInt(rawPage), 1)
        limit == orElse(parseInt(rawLimit), 10)
    IN  IF page < 1
        THEN [status |-> "400", page |-> 0, limit |-> 0,
              message |-> "Page number must be greater than 0"]
        ELSE IF limit < 1
        THEN [status |-> "400", page |-> 0, limit |-> 0,
              message |-> "Limit must be between 1 and 100"]
        ELSE [status |-> "next", page |-> page, limit |-> limit, message |-> "-"]

\* validatePagination: 400, or next with req.query.page and .limit set
validatePagination(rawPage, rawLimit) ==
    LET page  == orElse(parseInt(rawPage), 1)
        limit == orElse(parseInt(rawLimit), 10)
    IN  IF page < 1
        THEN [status |-> "400", page |-> 0, limit |-> 0,
              message |-> "Page number must be greater than 0"]
        ELSE IF limit < 1 \/ limit > 100
        THEN [status |-> "400", page |-> 0, limit |-> 0,
              message |-> "Limit must be between 1 and 100"]
        ELSE [status |-> "next", page |-> page, limit |-> limit, message |-> "-"]

NoQuery == [rawPage |-> << >>, rawLimit |-> << >>, status |-> "none",
            page |-> 0, limit |-> 0, message |-> "-"]

\* a request with these page and limit parameters reaches the middleware
ReceiveQuery(rawPage, rawLimit) ==
    /\ query.status = "none"
    /\ query' = [NoQuery EXCEPT !.rawPage = rawPage, !.rawLimit = rawLimit,
                                !.status = "pending"]

RunValidatePagination ==
    LET out == validatePagination(query.rawPage, query.rawLimit)
    IN  /\ query.status = "pending"
        /\ query' = [query EXCEPT !.status = out.status, !.page = out.page,
                                  !.limit = out.limit, !.message = out.message]

\* the request is answered
FinishQuery ==
    /\ query.status \in {"400", "next"}
    /\ query' = NoQuery

----------------------------------------------------------------------------
(* The operations *)

\* no request is on its way
NoRequest ==
    [ip |-> NoKey, path |-> NoKey, at |-> 0, skip |-> FALSE, decision |-> "none",
     status |-> "none"]

Init ==
    /\ requestStore = << >>
    /\ now = 0
    /\ last = Obs("init", NoKey, NoKey, NoEntry, NoEntry, "-", {})
    /\ hist = NoHist
    /\ custom = NoLimiter
    /\ inflight = NoRequest
    /\ users = InitUsers
    /\ req = NoReq
    /\ story = NoStory
    /\ calls = [p \in Procs |-> NoCall]
    /\ contact = NoContact
    /\ query = NoQuery

\* a request from ip on a route behind app.use(skipRateLimit) and
\* conditionalRateLimit(limiter)
Request(ip, limiter) ==
    LET skip   == skipRateLimit(ip)
        before == get(requestStore, ip)
        out    == conditionalRateLimit(limiter, skip, requestStore, ip, now)
    IN  /\ (~skip /\ before # NoEntry /\ now <= before.resetTime)
              => before.totalHits < MaxHits
        /\ requestStore' = out.store
        /\ last' = [Obs("request", ip, limiter.scope, before, out.result,
                        out.status, {}) EXCEPT !.body = out.body]
        /\ UNCHANGED now

Decrement(key) ==
    /\ requestStore' = decrement(requestStore, key)
    /\ last' = Obs("decrement", key, NoKey, get(requestStore, key), NoEntry,
                   "-", {})
    /\ UNCHANGED now

ResetKey(key) ==
    /\ requestStore' = resetKey(requestStore, key)
    /\ last' = Obs("resetKey", key, NoKey, get(requestStore, key), NoEntry,
                   "-", {})
    /\ UNCHANGED now

\* the hourly timer fires.  Its phase against the request traffic is free,
\* and no counter outlives a sweep by more than its own window, so the sweep
\* may fire at any tick.
Sweep ==
    LET after == sweep(requestStore, now)
    IN  /\ requestStore' = after
        /\ last' = Obs("sweep", NoKey, NoKey, NoEntry, NoEntry, "-",
                       DOMAIN requestStore \ DOMAIN after)
        /\ UNCHANGED now

Tick ==
    /\ now < MaxTime
    /\ now' = now + 1
    /\ last' = [Obs("tick", NoKey, NoKey, NoEntry, NoEntry, "-", {})
                  EXCEPT !.at = now + 1]
    /\ UNCHANGED requestStore

\* every client and every operation; hist is not kept
Next ==
    \/ \E ip \in IPs, limiter \in Limiters : Request(ip, limiter)
          /\ UNCHANGED <<hist, custom, inflight, dbVars>>
    \/ \E key \in IPs : Decrement(key) /\ UNCHANGED <<hist, custom, inflight, dbVars>>
    \/ \E key \in IPs : ResetKey(key) /\ UNCHANGED <<hist, custom, inflight, dbVars>>
    \/ Sweep /\ UNCHANGED <<hist, custom, inflight, dbVars>>
    \/ Tick /\ UNCHANGED <<hist, custom, inflight, dbVars>>

Spec == Init /\ [][Next]_vars

\* the watched key and the whitelisted ones, with the history of the watched
\* key kept
HistIPs == whitelistedIPs \cup {Watched}

NextHist ==
    \/ \E ip \in HistIPs, limiter \in Limiters : Request(ip, limiter)
          /\ Track /\ UNCHANGED <<custom, inflight, dbVars>>
    \/ \E key \in HistIPs : Decrement(key) /\ Track /\ UNCHANGED <<custom, inflight, dbVars>>
    \/ \E key \in HistIPs : ResetKey(key) /\ Track /\ UNCHANGED <<custom, inflight, dbVars>>
    \/ Sweep /\ Track /\ UNCHANGED <<custom, inflight, dbVars>>
    \/ Tick /\ Track /\ UNCHANGED <<custom, inflight, dbVars>>

SpecHist == Init /\ [][NextHist]_vars

\* createCustomLimiter is called and its limiter is kept for the requests
\* that follow
CreateCustomLimiter(w, max) ==
    /\ custom' = createCustomLimiter(w, max, CustomMessage)
    /\ last' = Obs("create", NoKey, "custom", NoEntry, NoEntry, "-", {})
    /\ UNCHANGED <<requestStore, now>>

\* the watched key and the whitelisted ones, under the limiters of the
\* catalog and under custom limiters
NextCustom ==
    \/ \E w \in CustomWindows, max \in CustomMaxes : CreateCustomLimiter(w, max)
          /\ UNCHANGED <<hist, inflight, dbVars>>
    \/ \E ip \in HistIPs : custom # NoLimiter /\ Request(ip, custom)
          /\ UNCHANGED <<hist, custom, inflight, dbVars>>
    \/ \E ip \in HistIPs, limiter \in Limiters : Request(ip, limiter)
          /\ UNCHANGED <<hist, custom, inflight, dbVars>>
    \/ \E key \in HistIPs : Decrement(key) /\ UNCHANGED <<hist, custom, inflight, dbVars>>
    \/ \E key \in HistIPs : ResetKey(key) /\ UNCHANGED <<hist, custom, inflight, dbVars>>
    \/ Sweep /\ UNCHANGED <<hist, custom, inflight, dbVars>>
    \/ Tick /\ UNCHANGED <<hist, custom, inflight, dbVars>>

SpecCustom == Init /\ [][NextCustom]_vars

\* requests and the timer alone: time goes on and the setInterval callback
\* keeps firing
NextLive ==
    \/ \E ip \in HistIPs, limiter \in Limiters : Request(ip, limiter)
          /\ UNCHANGED <<hist, custom, inflight, dbVars>>
    \/ Sweep /\ UNCHANGED <<hist, custom, inflight, dbVars>>
    \/ Tick /\ UNCHANGED <<hist, custom, inflight, dbVars>>

SpecLive ==
    /\ Init
    /\ [][NextLive]_vars
    /\ WF_vars(Tick /\ UNCHANGED <<hist, custom, inflight, dbVars>>)
    /\ WF_vars(Sweep /\ UNCHANGED <<hist, custom, inflight, dbVars>>)

\* Date.now() is the system clock: it may be set back
ClockBack ==
    /\ now > 0
    /\ now' = now - 1
    /\ last' = [Obs("clockBack", NoKey, NoKey, NoEntry, NoEntry, "-", {})
                  EXCEPT !.at = now - 1]
    /\ UNCHANGED requestStore

\* requests and the timer under a clock that goes both ways
NextClock ==
    \/ \E ip \in HistIPs, limiter \in Limiters : Request(ip, limiter)
          /\ UNCHANGED <<hist, custom, inflight, dbVars>>
    \/ Sweep /\ UNCHANGED <<hist, custom, inflight, dbVars>>
    \/ Tick /\ UNCHANGED <<hist, custom, inflight, dbVars>>
    \/ ClockBack /\ UNCHANGED <<hist, custom, inflight, dbVars>>

SpecClock == Init /\ [][NextClock]_vars

----------------------------------------------------------------------------
(* The app: one request on its way through the middleware of app.js *)

\* the middleware and routes in the order app.use registers them, from the
\* rate limiting on
appStack_routesFirst ==
    <<"routes", "skipRateLimit", "conditionalRateLimit", "sanitize">>

appStack == <<"skipRateLimit", "conditionalRateLimit", "sanitize", "routes">>

Paths == {"/health", "/api/news", "/api/auth"}

\* a request comes in; req.skipRateLimit is not set yet
Arrive(ip, path) ==
    /\ inflight.status # "pending"
    /\ inflight' = [ip |-> ip, path |-> path, at |-> 1, skip |-> FALSE,
                    decision |-> "none", status |-> "pending"]
    /\ last' = Obs("arrive", ip, NoKey, NoEntry, NoEntry, "-", {})
    /\ UNCHANGED <<requestStore, now>>

\* app.use(skipRateLimit)
RunSkipRateLimit ==
    /\ inflight.status = "pending"
    /\ appStack[inflight.at] = "skipRateLimit"
    /\ inflight' = [inflight EXCEPT !.skip = skipRateLimit(inflight.ip),
                                    !.at = @ + 1]
    /\ last' = Obs("skipRateLimit", inflight.ip, NoKey, NoEntry, NoEntry, "-", {})
    /\ UNCHANGED <<requestStore, now>>

\* app.use(conditionalRateLimit(apiLimiter)): the limiter's handler ends the
\* request with 429, next() hands it on
RunRateLimit ==
    LET ip     == inflight.ip
        before == get(requestStore, ip)
        out    == conditionalRateLimit(apiLimiter, inflight.skip, requestStore,
                                       ip, now)
    IN  /\ inflight.status = "pending"
        /\ appStack[inflight.at] = "conditionalRateLimit"
        /\ (~inflight.skip /\ before # NoEntry /\ now <= before.resetTime)
              => before.totalHits < apiLimiter.max + MaxOver
        /\ requestStore' = out.store
        /\ last' = [Obs("request", ip, apiLimiter.scope, before, out.result,
                        out.status, {}) EXCEPT !.body = out.body]
        /\ inflight' =
              IF out.status = "429"
              THEN [inflight EXCEPT !.decision = "429", !.status = "429"]
              ELSE [inflight EXCEPT !.decision = IF inflight.skip THEN "skip"
                                                 ELSE "next",
                                    !.at = @ + 1]
        /\ UNCHANGED now

\* app.use(sanitize)
RunSanitize ==
    /\ inflight.status = "pending"
    /\ appStack[inflight.at] = "sanitize"
    /\ inflight' = [inflight EXCEPT !.at = @ + 1]
    /\ last' = Obs("sanitize", inflight.ip, NoKey, NoEntry, NoEntry, "-", {})
    /\ UNCHANGED <<requestStore, now>>

\* the static files, /health and the /api routers: a route handler answers
RunRoutes ==
    /\ inflight.status = "pending"
    /\ appStack[inflight.at] = "routes"
    /\ inflight' = [inflight EXCEPT !.status = "handled"]
    /\ last' = Obs("routes", inflight.ip, NoKey, NoEntry, NoEntry, "-", {})
    /\ UNCHANGED <<requestStore, now>>

NextApp ==
    \/ \E ip \in HistIPs, path \in Paths : Arrive(ip, path)
          /\ UNCHANGED <<hist, custom, dbVars>>
    \/ RunSkipRateLimit /\ UNCHANGED <<hist, custom, dbVars>>
    \/ RunRateLimit /\ UNCHANGED <<hist, custom, dbVars>>
    \/ RunSanitize /\ UNCHANGED <<hist, custom, dbVars>>
    \/ RunRoutes /\ UNCHANGED <<hist, custom, dbVars>>
    \/ Sweep /\ UNCHANGED <<hist, custom, inflight, dbVars>>
    \/ Tick /\ UNCHANGED <<hist, custom, inflight, dbVars>>

SpecApp == Init /\ [][NextApp]_vars

----------------------------------------------------------------------------
(* Requests to the protected routes *)

NextAuth ==
    \/ /\ req.status # "pending"
       /\ \E header \in Headers, required \in Roles, chain \in {Protected, GateOnly} :
             Receive(header, required, chain)
       /\ UNCHANGED limitVars
    \/ RunAuthenticateToken /\ UNCHANGED limitVars
    \/ RunRequireRole /\ UNCHANGED limitVars
    \/ RunHandler /\ UNCHANGED limitVars
    \/ \E id \in UserIds, active \in BOOLEAN :
          SetActive(id, active) /\ UNCHANGED limitVars

SpecAuth == Init /\ [][NextAuth]_vars

\* the success story routes, their handlers interleaved at every await
NextStory ==
    \/ \E body \in Bodies : Submit(body) /\ UNCHANGED limitVars
    \/ \E p \in Procs, op \in StoryOps, user \in UserIds \cup {"-"}, body \in Bodies :
          Start(p, op, user, body) /\ UNCHANGED limitVars
    \/ \E p \in Procs : Find(p) /\ UNCHANGED limitVars
    \/ \E p \in Procs : Save(p) /\ UNCHANGED limitVars
    \/ \E p \in Procs : Respond(p) /\ UNCHANGED limitVars

SpecStory == Init /\ [][NextStory]_vars

\* the contact routes, their handlers interleaved at every await
NextContact ==
    \/ SubmitContact /\ UNCHANGED limitVars
    \/ \E p \in Procs, op \in ContactOps, user \in UserIds, status \in StatusInputs :
          StartContact(p, op, user, status) /\ UNCHANGED limitVars
    \/ \E p \in Procs : FindContact(p) /\ UNCHANGED limitVars
    \/ \E p \in Procs : SaveContact(p) /\ UNCHANGED limitVars
    \/ \E p \in Procs : Respond(p) /\ UNCHANGED limitVars

SpecContact == Init /\ [][NextContact]_vars

\* requests to the routes behind validatePagination
NextPage ==
    \/ /\ query.status = "none"
       /\ \E rawPage \in RawValues, rawLimit \in RawValues :
             ReceiveQuery(rawPage, rawLimit)
       /\ UNCHANGED <<limitVars, users, req, story, calls, contact>>
    \/ RunValidatePagination
          /\ UNCHANGED <<limitVars, users, req, story, calls, contact>>
    \/ FinishQuery
          /\ UNCHANGED <<limitVars, users, req, story, calls, contact>>

SpecPage == Init /\ [][NextPage]_vars

----------------------------------------------------------------------------
(* The claims *)

\* a request that went through a limiter (its key is not whitelisted)
Limited == last.op = "request" /\ ~skipRateLimit(last.key)

\* the counter the limiter of `scope` uses for ip
CounterOf(store, ip, scope) == get(store, keyGenerator(ip, LimiterOf(scope)))

\* C1: for every limiter with max N and window W, and a key that sends
\* requests under that limiter only, the N-th request inside W of the first
\* one is admitted and the (N+1)-th one inside W of the first is rejected.
C1_NthAdmittedNextRejected ==
    \A L \in Limiters :
        (last.op = "request" /\ last.key = Watched /\ hist.only = L.scope)
            => /\ hist.sent = L.max => last.status = "next"
               /\ hist.sent = L.max + 1 => last.status = "429"

\* C2: there is one counter per (key, policy): a request of a key under one
\* policy changes neither the count nor the window end of the counter used
\* for the same key under any other policy.
C2_OneCounterPerKeyAndPolicy ==
    [][\A scope \in Scopes :
          (last'.op = "request" /\ last'.scope # scope)
              => CounterOf(requestStore', last'.key, scope)
                    = CounterOf(requestStore, last'.key, scope)]_vars

\* C3: whatever the interleaving of the calls for one key under one limiter
\* with max N, of the M calls charged to one window of the counter exactly
\* min(M, N) are admitted: N admits and M - N rejects when M > N.
C3_ExactlyNAdmitted ==
    \A L \in Limiters :
        (hist.only = L.scope /\ has(requestStore, Watched))
            => hist.admits = Min(requestStore[Watched].totalHits, L.max)

C3_Witness ==
    \E L \in Limiters :
        /\ hist.only = L.scope
        /\ has(requestStore, Watched)
        /\ requestStore[Watched].totalHits >= L.max + 2
        /\ hist.admits = L.max

\* C4: a counter whose resetTime is in the past is treated as an absent one,
\* swept or not: the next request of the key is admitted and leaves a counter
\* with one hit and a window that starts at the time of that request.
C4_ExpiredTreatedAsAbsent ==
    (Limited /\ (last.before = NoEntry \/ last.before.resetTime < last.at))
        => /\ last.status = "next"
           /\ last.result = [totalHits |-> 1, resetTime |-> last.at + windowMs]
           /\ get(requestStore, last.key) = last.result

C4_Witness ==
    /\ Limited
    /\ last.before # NoEntry
    /\ last.before.resetTime < last.at
    /\ last.before.totalHits >= LimiterOf(last.scope).max
    /\ has(requestStore, last.key)

\* C5: a whitelisted key is admitted on every request under every limiter,
\* no counter ever exists for it, and its requests leave the whole store as
\* it was.
C5_WhitelistedNeverCounted ==
    /\ [](/\ \A ip \in whitelistedIPs : ~has(requestStore, ip)
          /\ (last.op = "request" /\ last.key \in whitelistedIPs)
                => last.status = "next" /\ last.result = NoEntry)
    /\ [][(last'.op = "request" /\ last'.key \in whitelistedIPs)
             => requestStore' = requestStore]_vars

C5_Witness ==
    /\ last.op = "request"
    /\ last.key \in whitelistedIPs
    /\ last.status = "next"
    /\ \E k \in DOMAIN requestStore :
          requestStore[k].totalHits > LimiterOf(last.scope).max

\* C6 as stated: a rejected request leaves the counter as it was, count and
\* resetTime, however many rejected requests follow each other.
C6_RejectDoesNotMutate ==
    (last.op = "request" /\ last.status = "429")
        => get(requestStore, last.key) = last.before

\* C6 as amended: a rejected request is charged like an admitted one: it adds
\* one to the count, which goes on growing above max with every further
\* rejected request, and it leaves resetTime as it was.
C6_RejectCharges ==
    (last.op = "request" /\ last.status = "429")
        => /\ last.before # NoEntry
           /\ last.result = [totalHits |-> last.before.totalHits + 1,
                             resetTime |-> last.before.resetTime]
           /\ get(requestStore, last.key) = last.result

C6_Witness ==
    /\ last.op = "request"
    /\ last.status = "429"
    /\ last.before.totalHits > LimiterOf(last.scope).max
    /\ requestStore[last.key].totalHits = last.before.totalHits + 1

C8_DecrementFlooredThenCounted ==
    /\ \A k \in DOMAIN requestStore : requestStore[k].totalHits >= 0
    /\ (last.op = "decrement" /\ last.before # NoEntry)
          => requestStore[last.key] =
               [totalHits |-> IF last.before.totalHits > 0
                              THEN last.before.totalHits - 1 ELSE 0,
                resetTime |-> last.before.resetTime]
    /\ (Limited /\ last.before # NoEntry /\ last.at <= last.before.resetTime)
          => requestStore[last.key] =
               [totalHits |-> last.before.totalHits + 1,
                resetTime |-> last.before.resetTime]

\* a count of 0 is what only decrements leave: the request counts 0 -> 1
C8_Witness ==
    /\ Limited
    /\ last.before # NoEntry
    /\ last.before.totalHits = 0
    /\ last.at <= last.before.resetTime
    /\ requestStore[last.key].totalHits = 1

\* C9: after resetKey no counter exists for the key, and the request that
\* follows is the first of a new window: admitted, one hit, and resetTime =
\* the time of the request + the window of the limiter it came under.
C9_ResetThenFreshWindow ==
    [][(last.op = "resetKey" /\ last'.op = "request" /\ last'.key = last.key
          /\ ~skipRateLimit(last.key))
          => /\ ~has(requestStore, last.key)
             /\ last'.status = "next"
             /\ get(requestStore', last.key) =
                  [totalHits |-> 1,
                   resetTime |-> now + LimiterOf(last'.scope).windowMs]]_vars

UsedLimiter == IF last.scope = "custom" THEN custom ELSE LimiterOf(last.scope)

\* a policy as the data model has it: a positive limit and a positive window
ValidPolicy(L) == L.max > 0 /\ L.windowMs > 0

\* C11: whenever a request under a limiter creates or resets a counter at
\* time now, the counter's resetTime is now + the windowMs of that limiter,
\* for the limiters of the catalog and for custom ones.
C11_WindowEndFromPolicy ==
    (Limited /\ ValidPolicy(UsedLimiter) /\ last.result.totalHits = 1
        /\ (last.before = NoEntry \/ last.result.resetTime # last.before.resetTime))
        => last.result.resetTime = last.at + UsedLimiter.windowMs

\* C12 as stated: the count of a counter never exceeds the max of the
\* limiter its key sends requests under, whatever requests the key has sent.
C12_CountWithinMax ==
    \A L \in Limiters :
        (hist.only = L.scope /\ has(requestStore, Watched))
            => requestStore[Watched].totalHits <= L.max

\* C12 as amended: what stays within max is the number of requests admitted
\* in one window of the counter, and a request is admitted exactly when the
\* count it reaches is within max; the count itself grows above max with
\* every rejected request.
C12_AdmittedWithinMax ==
    /\ \A L \in Limiters : hist.only = L.scope => hist.admits <= L.max
    /\ (last.op = "request" /\ last.key = Watched)
          => /\ requestStore[Watched].totalHits >= 1
             /\ (last.status = "next")
                   <=> (requestStore[Watched].totalHits <= LimiterOf(last.scope).max)

C12_Witness ==
    /\ last.op = "request"
    /\ last.key = Watched
    /\ last.status = "429"
    /\ hist.only = last.scope
    /\ hist.admits = LimiterOf(last.scope).max
    /\ requestStore[Watched].totalHits > LimiterOf(last.scope).max

\* remaining, as the claims have it: max - count, floored at 0
Remaining(L, result) ==
    IF L.max - result.totalHits > 0 THEN L.max - result.totalHits ELSE 0

C14_RetryAfterWithinWindow ==
    (Limited /\ ValidPolicy(UsedLimiter) /\ last.status = "429")
        => /\ last.result.resetTime - last.at > 0
           /\ last.result.resetTime - last.at <= UsedLimiter.windowMs

\* C15: every rejected request is answered with status 429 and the body
\* {success: false, message: <the text of the policy used>}, and is not
\* handed on to the route handler (next is not called); an admitted request
\* is handed on and gets no body from the limiter.
C15_RejectAnswers429WithPolicyText ==
    (Limited /\ last.scope # "none") =>
        IF last.result.totalHits > UsedLimiter.max
        THEN /\ last.status = "429"
             /\ last.body = [success |-> FALSE, message |-> UsedLimiter.message]
        ELSE /\ last.status = "next"
             /\ last.body = NoBody

C15_Witness ==
    /\ Limited
    /\ last.scope = "custom"
    /\ ValidPolicy(custom)
    /\ last.status = "429"
    /\ last.body = [success |-> FALSE, message |-> CustomMessage]

\* C16: a limiter built with max <= 0 or windowMs <= 0 fails at construction,
\* so the custom limiter in use, if any, has a valid policy and no request is
\* ever served under an invalid one.
C16_InvalidPolicyNeverServes ==
    /\ custom # NoLimiter => ValidPolicy(custom)
    /\ (last.op = "request" /\ last.scope = "custom") => ValidPolicy(custom)

\* C17: a route handler runs only for a request on which the general
\* limiter has decided before: a request from an address off the whitelist is
\* handled only after the limiter admitted it, one from the whitelist only
\* after the limiter let it pass unchecked, and a rejected request is never
\* handled.
C17_LimiterDecidesBeforeHandler ==
    /\ inflight.status = "handled" =>
          inflight.decision = (IF inflight.ip \in whitelistedIPs THEN "skip"
                               ELSE "next")
    /\ inflight.decision = "429" => inflight.status = "429"
    /\ inflight.status = "429" =>
          /\ inflight.ip \notin whitelistedIPs
          /\ appStack[inflight.at] = "conditionalRateLimit"

C17_Witness ==
    /\ inflight.status = "handled"
    /\ inflight.path = "/api/news"
    /\ inflight.ip \notin whitelistedIPs
    /\ inflight.decision = "next"
    /\ has(requestStore, inflight.ip)
    /\ requestStore[inflight.ip].totalHits = apiLimiter.max

C17_RejectedWitness ==
    /\ inflight.status = "429"
    /\ inflight.path = "/api/news"

\* C18: with time going on and the sweep firing again and again, a counter
\* whose window ends within the time modelled is eventually deleted, unless
\* its client sends a further request.
C18_IdleCounterEventuallySwept ==
    \A k \in HistIPs :
        (has(requestStore, k) /\ requestStore[k].resetTime < MaxTime)
            ~> \/ ~has(requestStore, k)
               \/ last.op = "request" /\ last.key = k

C18_Witness ==
    /\ last.op = "sweep"
    /\ last.swept = {Watched}
    /\ ~has(requestStore, Watched)
    /\ now = MaxTime

\* C19: a request that is counted on a counter inside its window adds
\* exactly 1 to totalHits and keeps resetTime; one counted on an expired or
\* absent counter leaves totalHits 1 in a window that starts now; a request
\* changes no other counter and none when it is not counted; and the clock and
\* the sweep never change a counter that is inside its window.
C19_CountStepsByOne ==
    [][/\ last'.op = "request" =>
            \A k \in DOMAIN requestStore \cup DOMAIN requestStore' :
                LET b == get(requestStore, k)
                    a == get(requestStore', k)
                IN  IF k = last'.key /\ ~skipRateLimit(k)
                    THEN IF b # NoEntry /\ now <= b.resetTime
                         THEN /\ a.totalHits = b.totalHits + 1
                              /\ a.resetTime = b.resetTime
                         ELSE /\ a.totalHits = 1
                              /\ a.resetTime > now
                    ELSE a = b
       /\ last'.op \in {"tick", "sweep"} =>
            \A k \in DOMAIN requestStore :
                now <= requestStore[k].resetTime
                    => get(requestStore', k) = requestStore[k]]_vars

C19_Witness ==
    /\ Limited
    /\ last.before # NoEntry
    /\ last.before.totalHits > 1
    /\ last.at > last.before.resetTime
    /\ last.result.totalHits = 1
    /\ last.result.resetTime > last.at

\* C20: a sweep run before a request changes nothing the request sees: the
\* sweep at time now leaves every counter that has not expired as it is, and
\* for every client and limiter the request at time now gets the same answer
\* and the same counter on the swept store as on the unswept one, and leaves
\* the same live counters behind; a request whose counter the sweep deleted
\* starts a new window with 1 hit and is admitted.
C20_SweepCommutesWithRequests ==
    LET swept == sweep(requestStore, now)
    IN  /\ \A k \in DOMAIN requestStore :
              now <= requestStore[k].resetTime
                  => has(swept, k) /\ swept[k] = requestStore[k]
        /\ \A ip \in IPs, limiter \in Limiters :
              LET skip == skipRateLimit(ip)
                  a == conditionalRateLimit(limiter, skip, requestStore, ip, now)
                  b == conditionalRateLimit(limiter, skip, swept, ip, now)
              IN  /\ a.status = b.status
                  /\ a.result = b.result
                  /\ sweep(a.store, now) = sweep(b.store, now)
                  /\ (~skip /\ has(requestStore, ip) /\ ~has(swept, ip))
                        => /\ b.result.totalHits = 1
                           /\ b.status = "next"

C20_Witness ==
    /\ last.op = "sweep"
    /\ last.swept # {}
    /\ \E k \in DOMAIN requestStore :
          /\ requestStore[k].resetTime > now
          /\ requestStore[k].totalHits > 1

\* C21: whether a counted request starts a new window depends on the
\* comparison of now with resetTime alone: with now <= resetTime, and so also
\* with a clock set back to before the start of the window, the request adds
\* 1 to totalHits and keeps resetTime; only with now > resetTime it leaves
\* totalHits 1 and a new resetTime.
C21_ClockRegressionKeepsWindow ==
    (Limited /\ last.before # NoEntry) =>
        last.result =
            IF last.at > last.before.resetTime
            THEN [totalHits |-> 1, resetTime |-> last.at + windowMs]
            ELSE [totalHits |-> last.before.totalHits + 1,
                  resetTime |-> last.before.resetTime]

C21_Witness ==
    /\ Limited
    /\ last.before # NoEntry
    /\ last.at < last.before.resetTime - windowMs
    /\ last.result.totalHits = last.before.totalHits + 1
    /\ last.result.resetTime = last.before.resetTime

\* C22: decrement of a key without a counter leaves the store as it is, no
\* counter made; decrement of any key leaves the set of counters, the
\* counter of every other key and the resetTime of its own counter unchanged.
C22_DecrementFrame ==
    [][last'.op = "decrement" =>
          /\ DOMAIN requestStore' = DOMAIN requestStore
          /\ ~has(requestStore, last'.key) => requestStore' = requestStore
          /\ \A k \in DOMAIN requestStore :
                /\ k # last'.key => requestStore'[k] = requestStore[k]
                /\ requestStore'[k].resetTime = requestStore[k].resetTime]_vars

C22_Witness ==
    /\ last.op = "decrement"
    /\ last.before = NoEntry
    /\ ~has(requestStore, last.key)
    /\ \E k \in DOMAIN requestStore : requestStore[k].totalHits > 1

\* C23: resetKey for a key under one policy deletes the counter of that key
\* and policy alone: the counter of every other key, and the counter of the
\* same key under every other policy, keeps totalHits and resetTime.
C23_ResetOnlyKeyAndPolicy ==
    [][last'.op = "resetKey" =>
          \A policy \in Scopes, ip \in IPs, scope \in Scopes :
              (ip # last'.key \/ scope # policy)
                  => CounterOf(requestStore', ip, scope)
                        = CounterOf(requestStore, ip, scope)]_vars

\* a Map of counters as the operations leave it: keys are client addresses,
\* every entry has a count that is not negative and a resetTime
WellFormed(store) ==
    /\ DOMAIN store \subseteq IPs
    /\ \A k \in DOMAIN store : store[k] \in [totalHits : Nat, resetTime : Nat]

\* C24: in every reachable state the store is well formed, and for every key,
\* with a counter or without, incr, decrement, resetKey and the sweep each
\* yield a well-formed store; incr yields the entry it returns, and every
\* limiter answers a request with next or with 429, a value.
C24_OperationsTotal ==
    /\ WellFormed(requestStore)
    /\ WellFormed(sweep(requestStore, now))
    /\ \A key \in IPs :
          /\ WellFormed(incr(requestStore, key, now))
          /\ has(incr(requestStore, key, now), key)
          /\ WellFormed(decrement(requestStore, key))
          /\ WellFormed(resetKey(requestStore, key))
          /\ \A limiter \in Limiters :
                LET out == rateLimit(limiter, requestStore, key, now)
                IN  /\ out.status \in {"next", "429"}
                    /\ WellFormed(out.store)
                    /\ out.result = out.store[key]

C24_Witness ==
    /\ last.op = "resetKey"
    /\ last.before = NoEntry
    /\ \E k \in DOMAIN requestStore :
          /\ requestStore[k].totalHits = 0
          /\ requestStore[k].resetTime < now

\* the order of the roles, lowest first
RoleOrder == <<"viewer", "content_manager", "news_editor", "admin">>

RanksAtOrAbove(role, required) ==
    \E i, j \in 1..Len(RoleOrder) :
        RoleOrder[i] = role /\ RoleOrder[j] = required /\ i >= j

\* C27: requireRole(q) calls next exactly for a request that carries a user
\* whose role is q or above in viewer < content_manager < news_editor <
\* admin; it answers 401 without a user and 403 with a lower role, and a
\* request answered 401 or 403 never reaches the handler.
C27_RoleGateFollowsOrder ==
    /\ req.gate # "none" =>
          req.gate = IF req.user = NoUser THEN "401"
                     ELSE IF RanksAtOrAbove(req.user.role, req.required)
                          THEN "next"
                          ELSE "403"
    /\ req.gate \in {"401", "403"} => req.status = req.gate
    /\ (req.status = "handled" /\ req.chain # << >>) => req.gate = "next"

C27_Witness ==
    /\ req.gate = "403"
    /\ req.status = "403"
    /\ req.user.role = "content_manager"
    /\ req.required = "news_editor"

\* C28: authenticateToken sets req.user and calls next exactly when the
\* Authorization header carries a token that verifies and whose userId is
\* that of a user of the collection with isActive true; with no token, a
\* token that does not verify, an unknown user or a deactivated one it
\* answers 401, req.user stays unset, and the handler behind it is not
\* reached.
C28_AuthenticatedOnlyIfActiveUser ==
    [][/\ (req.auth = "none" /\ req'.auth # "none") =>
            LET token == tokenOf(req.header)
                ok    == /\ Len(req.header) >= 2
                         /\ token.valid
                         /\ token.userId \in DOMAIN users
                         /\ users[token.userId].isActive
            IN  IF ok
                THEN /\ req'.auth = "next"
                     /\ req'.user = users[token.userId]
                     /\ req'.status = "pending"
                ELSE /\ req'.auth = "401"
                     /\ req'.user = NoUser
                     /\ req'.status = "401"
       /\ req.auth = "401" => req'.status # "handled"
       /\ (req'.status = "handled" /\ req'.chain = Protected)
            => req'.auth = "next"]_vars

C28_Witness ==
    /\ req.auth = "401"
    /\ req.status = "401"
    /\ tokenOf(req.header).valid
    /\ tokenOf(req.header).userId \in DOMAIN users
    /\ ~users[tokenOf(req.header).userId].isActive

C26_FirstApprovalKept ==
    [][/\ \A p \in Procs :
            (calls[p].op = "approve" /\ calls[p].pc = "find"
               /\ calls'[p].pc # "find" /\ story.isVerified)
                => calls'[p].status = "400" /\ story' = story
       /\ (story.isVerified /\ story'.exists) =>
            /\ story'.approvedBy = story.approvedBy
            /\ story'.approvedAt = story.approvedAt]_vars

\* C29: the save of GET /:id changes the status of a message from unread
\* to read and in no other way, so that a message that is read, replied or
\* archived keeps its status through GET /:id; and the status of a message
\* is always one of unread, read, replied, archived.
C29_ReadOnlyFromUnread ==
    [][/\ \A p \in Procs :
            (calls[p].op = "getContact" /\ calls'[p] # calls[p]
               /\ calls'[p].pc = "done")
                => \/ contact' = contact
                   \/ contact.status = "unread" /\ contact'.status = "read"
       /\ contact'.exists => contact'.status \in Statuses]_vars

\* a query parameter without its sign
Unsigned(raw) == IF raw # << >> /\ raw[1] = "-" THEN Tail(raw) ELSE raw

\* how many digits a string starts with
RunLen(str) ==
    Cardinality({i \in 1..Len(str) : \A j \in 1..i : str[j] \in DigitChars})

\* the number the first k characters of str write
RECURSIVE Written(_, _)
Written(str, k) ==
    IF k = 0 THEN 0 ELSE 10 * Written(str, k - 1) + digit(str[k])

Magnitude(raw) == Written(Unsigned(raw), RunLen(Unsigned(raw)))

Negative(raw) == raw # << >> /\ raw[1] = "-" /\ Magnitude(raw) > 0
Positive(raw) == (raw = << >> \/ raw[1] # "-") /\ Magnitude(raw) > 0

====
